---- MODULE Spec2Model ----
(***************************************************************************)
(* Model of src/src/ddpm.py: the Diffusion class (noise schedule, forward  *)
(* noising, timestep sampling, reverse sampling) and the launch/train      *)
(* script that drives it.                                                  *)
(*                                                                         *)
(* Numbers.  A float is an integer: a finite value v / Scale in fixed point *)
(* (-FloatMax <= v <= FloatMax), or one of PosInf, NegInf, NaN.  A finite   *)
(* result whose magnitude exceeds FloatMax becomes an infinity, as a float  *)
(* result beyond the largest finite float does.                             *)
(*                                                                         *)
(* Tensors.  A tensor is a sequence over the batch dimension; each sample  *)
(* is represented by one element, since every operation of the class is    *)
(* elementwise over the channel and spatial dimensions.                    *)
(***************************************************************************)
EXTENDS Integers, Sequences, FiniteSets, TLC

\* ------------------------------------------------------------------ bounds
\* fixed-point resolution of the floats: 1.0 is Scale
Scale == 10000
\* largest noise_steps a caller passes to Diffusion(...) or --noise_steps
MaxT == 3
\* largest batch size of a call
MaxN == 2
\* largest --epochs
MaxEpochs == 2

FloatMax == 10 * Scale

\* ------------------------------------------------------ float arithmetic
PosInf == FloatMax + 1

NegInf == -(FloatMax + 1)

NaN == FloatMax + 2

\* the float of the fixed-point value v
Fin(v) == v

IsFin(a) == -FloatMax <= a /\ a <= FloatMax

IsInf(a) == a = PosInf \/ a = NegInf

Abs(v) == IF v < 0 THEN -v ELSE v

\* -1, 0 or 1; an infinity has its sign, NaN has 0
Sgn(a) == IF a = NaN THEN 0 ELSE IF a > 0 THEN 1 ELSE IF a < 0 THEN -1 ELSE 0

InfOf(s) == IF s < 0 THEN NegInf ELSE PosInf

\* a finite result that may have left the finite range
Round(v) == IF v > FloatMax THEN PosInf ELSE IF v < -FloatMax THEN NegInf ELSE v

FNeg(a) == IF a = NaN THEN NaN ELSE -a

FAdd(a, b) ==
  CASE a = NaN \/ b = NaN -> NaN
    [] IsInf(a) /\ IsInf(b) -> IF a = b THEN a ELSE NaN
    [] IsInf(a) -> a
    [] IsInf(b) -> b
    [] OTHER -> Round(a + b)

FSub(a, b) == FAdd(a, FNeg(b))

\* p * q / Scale for magnitudes p, q without leaving the 32-bit integers
MulMag(p, q) == (p \div Scale) * q + ((p % Scale) * q) \div Scale

FMul(a, b) ==
  CASE a = NaN \/ b = NaN -> NaN
    [] IsInf(a) \/ IsInf(b) ->
         IF Sgn(a) * Sgn(b) = 0 THEN NaN ELSE InfOf(Sgn(a) * Sgn(b))
    [] OTHER -> Round(Sgn(a) * Sgn(b) * MulMag(Abs(a), Abs(b)))

FDiv(a, b) ==
  CASE a = NaN \/ b = NaN -> NaN
    [] IsInf(a) /\ IsInf(b) -> NaN
    [] IsInf(a) -> InfOf(Sgn(a) * (IF Sgn(b) < 0 THEN -1 ELSE 1))
    [] IsInf(b) -> 0
    [] b = 0 -> IF a = 0 THEN NaN ELSE InfOf(Sgn(a))
    [] OTHER -> Round(Sgn(a) * Sgn(b) * ((Abs(a) * Scale) \div Abs(b)))

\* floor of the square root of m, searched between lo and hi
RECURSIVE SqrtSearch(_, _, _)
SqrtSearch(m, lo, hi) ==
  IF lo >= hi THEN lo
  ELSE LET mid == (lo + hi + 1) \div 2
       IN IF mid * mid <= m THEN SqrtSearch(m, mid, hi) ELSE SqrtSearch(m, lo, mid - 1)

FSqrt(a) ==
  CASE a = NaN \/ a = NegInf -> NaN
    [] a = PosInf -> PosInf
    [] a < 0 -> NaN
    [] OTHER -> SqrtSearch(a * Scale, 0, 40000)

One == Fin(Scale)

Zero == Fin(0)

\* x.clamp(lo, hi): NaN stays NaN
Clamp(a, lo, hi) == IF a = NaN THEN NaN ELSE IF a < lo THEN lo ELSE IF a > hi THEN hi ELSE a

\* ------------------------------------------------------------ the schedule
\* torch.linspace(start, end, steps): steps values from start to end
linspace(start, end, steps) ==
  [j \in 1..steps |->
     IF steps = 1 THEN Fin(start)
     ELSE Fin(start + ((j - 1) * (end - start)) \div (steps - 1))]

\* torch.cumprod(s, dim=0), as a scan: the running products of the left half,
\* then those of the right half, each times the product of the left half
RECURSIVE cumprod(_)
cumprod(s) ==
  IF Len(s) <= 1 THEN s
  ELSE LET h == Len(s) \div 2
           l == cumprod(SubSeq(s, 1, h))
           r == cumprod(SubSeq(s, h + 1, Len(s)))
       IN l \o [j \in 1..Len(r) |-> FMul(l[h], r[j])]

\* Python indexing of a 1-D tensor by an integer: negative indices count from the end
ValidIndex(s, idx) == -Len(s) <= idx /\ idx < Len(s)

Index(s, idx) == IF idx >= 0 THEN s[idx + 1] ELSE s[Len(s) + idx + 1]

\* s[t] for an index tensor t
Gather(s, t) == [j \in 1..Len(t) |-> Index(s, t[j])]

\* batch size of the broadcast of tensors with batch sizes L; 0 when they do not broadcast
BroadcastLen(L) ==
  LET big == L \ {1}
  IN IF big = {} THEN 1
     ELSE IF Cardinality(big) = 1 THEN CHOOSE l \in big : TRUE
     ELSE 0

\* element j of a tensor broadcast over the batch
At(t, j) == IF Len(t) = 1 THEN t[1] ELSE t[j]

\* ------------------------------------------------------------- constants
DefaultNoiseSteps == 1000
DefaultImgSize == 256
ConfigImgSize == 32
ConfigEpochs == 100

\* 1e-4 and 0.02
DefaultBetaStart == Scale \div 10000

DefaultBetaEnd == (2 * Scale) \div 100

\* the module-level config namespace
config0 ==
  [noise_steps |-> DefaultNoiseSteps, epochs |-> ConfigEpochs,
   img_size |-> ConfigImgSize, device |-> "cpu"]

\* get_data(args): the batches of one epoch, here one batch of one image
train_dataloader == << << Fin(Scale \div 2) >> >>

\* ---------------------------------------------------------------- inputs
\* values of --noise_steps on the command line
ArgNoiseSteps == {1, MaxT, DefaultNoiseSteps}

\* values of --epochs on the command line
ArgEpochs == 0..MaxEpochs

\* (beta_start, beta_end) pairs a caller constructs with
BetaPairs ==
  { << DefaultBetaStart, DefaultBetaEnd >>, << DefaultBetaEnd, DefaultBetaStart >>,
    << 0, DefaultBetaEnd >> }

\* timestep batches a caller passes to noise_images for a schedule of T steps:
\* one entry anywhere from -(T+1) to T, the others 0
TimestepBatches(k, T) ==
  { [j \in 1..k |-> IF j = q THEN a ELSE 0] : q \in 1..k, a \in (-(T + 1))..T }

\* image batches a caller passes to noise_images
Images(k) == { [j \in 1..k |-> Fin(Scale)], [j \in 1..k |-> Fin(-(Scale \div 2))] }

\* outcomes of one standard-normal draw of batch size k; train is followed
\* along one outcome per draw
Randn(who, k) ==
  IF who = "train" THEN { [j \in 1..k |-> One] }
  ELSE { [j \in 1..k |-> One], [j \in 1..k |-> Fin(-((j * Scale) \div 2))] }

\* outcomes of model(x, t): it raises, or returns a tensor.  train's model is
\* the UNet built at line 132; a caller of sample passes any callable
PredVals == { One, NaN }

Predictor(who, x) ==
  { [raised |-> TRUE, out |-> << >>] } \cup
  IF who = "train" THEN { [raised |-> FALSE, out |-> [j \in 1..Len(x) |-> Zero]] }
  ELSE { [raised |-> FALSE, out |-> [j \in 1..m |-> v]] : m \in 1..MaxN, v \in PredVals }

\* outcomes of converting a float that is NaN or outside [0, 256) to uint8
\* (undefined by the C standard): builds give 0 or the low byte of INT_MAX
UndefinedCast == { 0, 255 }

\* ------------------------------------------------------------- Diffusion
\* Diffusion.prepare_noise_schedule
prepare_noise_schedule(noise_steps, beta_start, beta_end) ==
  linspace(beta_start, beta_end, noise_steps)

\* the instance Diffusion.__init__ leaves behind (noise_steps >= 0)
Diffusion(noise_steps, beta_start, beta_end, img_size, device) ==
  LET beta == prepare_noise_schedule(noise_steps, beta_start, beta_end)
      alpha == [j \in 1..Len(beta) |-> FSub(One, beta[j])]
  IN [noise_steps |-> noise_steps, beta_start |-> beta_start, beta_end |-> beta_end,
      img_size |-> img_size, device |-> device,
      beta |-> beta, alpha |-> alpha, alpha_hat |-> cumprod(alpha)]

\* Diffusion.noise_images(x, t) with eps the outcome of randn_like(x)
noise_images(self, xin, t, eps) ==
  IF \E j \in 1..Len(t) : ~ValidIndex(self.alpha_hat, t[j])
  THEN [status |-> "error", err |-> "IndexError", out |-> << >>, aux |-> << >>]
  ELSE LET ah == Gather(self.alpha_hat, t)
           L == BroadcastLen({Len(xin), Len(t)})
       IN IF L = 0
          THEN [status |-> "error", err |-> "RuntimeError", out |-> << >>, aux |-> << >>]
          ELSE [status |-> "ok", err |-> "",
                out |-> [j \in 1..L |->
                          FAdd(FMul(FSqrt(At(ah, j)), At(xin, j)),
                               FMul(FSqrt(FSub(One, At(ah, j))), At(eps, j)))],
                aux |-> eps]

\* randint with the upper bound included
randint_closed(low, high, k) == [1..k -> low..high]

\* the outcomes of torch.randint(low=1, high=noise_steps, size=(k,))
randint(low, high, k) == [1..k -> low..(high - 1)]

\* Diffusion.sample_timesteps(k): the tensors it can return; none when randint raises
sample_timesteps(self, k) ==
  IF 1 < self.noise_steps THEN randint(1, self.noise_steps, k) ELSE {}

\* reversed(range(1, noise_steps)): the loop of sample starts at First, goes
\* down by one, and ends below Last
RangeFirst(self) == self.noise_steps - 1

\* range(0, noise_steps): the loop would also visit timestep 0
RangeFromZero == 1 - 1

RangeLast == 1

\* fresh noise at every step, the last one included
FreshNoiseAlways(i) == i > 0

\* the noise of the step for timestep i: fresh iff i > 1
FreshNoise(i) == i > 1

\* line 122: the new x from x, the timestep batch, the prediction and the noise
Update(self, xs, t, pred, noise) ==
  LET a == Gather(self.alpha, t)
      ah == Gather(self.alpha_hat, t)
      b == Gather(self.beta, t)
      L == BroadcastLen({Len(xs), Len(t), Len(pred), Len(noise)})
  IN [j \in 1..L |->
       FAdd(FMul(FDiv(One, FSqrt(At(a, j))),
                 FSub(At(xs, j),
                      FMul(FDiv(FSub(One, At(a, j)), FSqrt(FSub(One, At(ah, j)))),
                           At(pred, j)))),
            FMul(FSqrt(At(b, j)), At(noise, j)))]

\* lines 115-117 assigning the fields instead of locals
AfterStepAssigns(self, t) ==
  [self EXCEPT !.alpha = Gather(self.alpha, t), !.alpha_hat = Gather(self.alpha_hat, t),
               !.beta = Gather(self.beta, t)]

\* lines 115-117 bind the locals alpha, alpha_hat and beta: the instance after
\* one iteration of the loop is the instance before it
AfterStep(self, t) == self

\* line 123 left out
model_train_skipped(mode) == mode

\* model.eval() and model.train(): the value of model.training after the call
model_eval(mode) == FALSE

model_train(mode) == TRUE

\* line 124: (x.clamp(-1, 1) + 1) / 2
Unit(a) == FDiv(FAdd(Clamp(a, -Scale, Scale), One), Fin(2 * Scale))

\* line 125: the values (x * 255).type(torch.uint8) can take for one element
Uint8(a) ==
  IF IsFin(a) /\ 0 <= a /\ (a * 255) \div Scale < 256
  THEN { (a * 255) \div Scale }
  ELSE UndefinedCast

\* lines 124-125: the image batches sample can return for the final x
ToImages(xs) ==
  LET bytes == UNION { Uint8(Unit(xs[j])) : j \in 1..Len(xs) }
  IN { im \in [1..Len(xs) -> bytes] : \A j \in 1..Len(xs) : im[j] \in Uint8(Unit(xs[j])) }

\* ------------------------------------------------------------------ state
VARIABLES
  pc,        \* "start", "idle", "sampling", "train", "batches", "saving", "done", "failed"
  who,       \* who drives the instance: "none", "caller" (library use) or "train" (launch)
  config,    \* the config namespace
  diffusion, \* << >>, or << the Diffusion instance >>
  training,  \* model.training
  epoch,     \* train: the epoch
  batch,     \* train: batches of this epoch already taken
  n,         \* sample: n
  i,         \* sample: the loop variable i
  x,         \* sample: x
  x0,        \* sample: the initial x (history)
  training0, \* sample: model.training when sample was called (history)
  calls,     \* predictor invocations of the operation under way or last ended (history)
  steps,     \* sample: the steps executed (history)
  draws,     \* standard-normal draws of the operation under way or last ended (history)
  last       \* the outcome of the last operation ended

vars ==
  << pc, who, config, diffusion, training, epoch, batch, n, i, x, x0, training0,
     calls, steps, draws, last >>

self == diffusion[1]

NoOutcome == [op |-> "", status |-> "", err |-> "", arg |-> << >>, out |-> << >>, aux |-> << >>]

Init ==
  /\ pc = "start"
  /\ who = "none"
  /\ config = config0
  /\ diffusion = << >>
  /\ training = TRUE
  /\ epoch = 0
  /\ batch = 0
  /\ n = 0
  /\ i = 0
  /\ x = << >>
  /\ x0 = << >>
  /\ training0 = TRUE
  /\ calls = << >>
  /\ steps = << >>
  /\ draws = 0
  /\ last = NoOutcome

\* where control goes when an operation of the instance ends
Return(ok) ==
  IF who = "train" THEN (IF ok THEN "saving" ELSE "failed") ELSE "returned"

\* ------------------------------------------------------- library use
\* Diffusion(noise_steps=T, beta_start=bs, beta_end=be): torch.linspace raises on
\* a negative number of steps, and accepts everything else
Diffusion_init(T, bs, be) ==
  /\ pc = "start"
  /\ who' = "caller"
  /\ IF T < 0
     THEN /\ pc' = "failed"
          /\ diffusion' = << >>
          /\ last' = [NoOutcome EXCEPT !.op = "init", !.status = "error", !.err = "RuntimeError"]
     ELSE /\ pc' = "idle"
          /\ diffusion' = << Diffusion(T, bs, be, DefaultImgSize, "cuda") >>
          /\ last' = [NoOutcome EXCEPT !.op = "init", !.status = "ok"]
  /\ UNCHANGED << config, training, epoch, batch, n, i, x, x0, training0, calls, steps, draws >>

\* diffusion.noise_images(xin, t)
noise_images_call(xin, t, eps) ==
  /\ pc = "idle"
  /\ LET r == noise_images(self, xin, t, eps)
     IN /\ last' = [op |-> "noise_images", status |-> r.status, err |-> r.err,
                    arg |-> t, out |-> r.out, aux |-> r.aux]
        /\ draws' = IF r.err = "IndexError" THEN 0 ELSE 1
  /\ pc' = "returned"
  /\ UNCHANGED << who, config, diffusion, training, epoch, batch, n, i, x, x0, training0,
                  calls, steps >>

\* diffusion.sample_timesteps(k)
sample_timesteps_call(k) ==
  /\ pc = "idle"
  /\ IF sample_timesteps(self, k) = {}
     THEN last' = [NoOutcome EXCEPT !.op = "sample_timesteps", !.status = "error",
                                    !.err = "RuntimeError", !.arg = << k >>]
     ELSE \E t \in sample_timesteps(self, k) :
            last' = [NoOutcome EXCEPT !.op = "sample_timesteps", !.status = "ok",
                                      !.arg = << k >>, !.out = t]
  /\ pc' = "returned"
  /\ UNCHANGED << who, config, diffusion, training, epoch, batch, n,
                  i, x, x0, training0, calls, steps, draws >>

\* the caller goes on after a call has ended and drops what the call left
\* behind (n, i, x, the outcome and the history variables); the instance and
\* the model keep their state
caller_continues ==
  /\ pc = "returned"
  /\ pc' = "idle"
  /\ n' = 0
  /\ i' = 0
  /\ x' = << >>
  /\ x0' = << >>
  /\ training0' = TRUE
  /\ calls' = << >>
  /\ steps' = << >>
  /\ draws' = 0
  /\ last' = NoOutcome
  /\ UNCHANGED << who, config, diffusion, training, epoch, batch >>

\* ------------------------------------------------------------- sample
\* lines 108-111: model.eval(), the initial x
sample_begin(k) ==
  /\ \/ pc = "idle"
     \/ pc = "batches" /\ batch = Len(train_dataloader) /\ k = Len(train_dataloader[batch])
  /\ pc' = "sampling"
  /\ training' = model_eval(training)
  /\ training0' = training
  /\ n' = k
  /\ \E z \in Randn(who, k) : x' = z /\ x0' = z
  /\ i' = RangeFirst(self)
  /\ calls' = << >>
  /\ steps' = << >>
  /\ draws' = 1
  /\ last' = NoOutcome
  /\ UNCHANGED << who, config, diffusion, epoch, batch >>

\* lines 112-122: one iteration of the loop
sample_step ==
  /\ pc = "sampling"
  /\ i >= RangeLast
  /\ LET t == [j \in 1..n |-> i]
     IN \E p \in Predictor(who, x) :
          /\ calls' = Append(calls, [by |-> "sample", t |-> t, x |-> x, training |-> training,
                                     raised |-> p.raised, shape |-> Len(p.out)])
          /\ IF p.raised
             THEN /\ pc' = Return(FALSE)
                  /\ last' = [NoOutcome EXCEPT !.op = "sample", !.status = "error",
                                               !.err = "PredictorRaised"]
                  /\ UNCHANGED << x, i, steps, draws >>
             ELSE \E z \in (IF FreshNoise(i) THEN Randn(who, Len(x)) ELSE { [j \in 1..Len(x) |-> Zero] }) :
                    /\ draws' = IF FreshNoise(i) THEN draws + 1 ELSE draws
                    /\ IF BroadcastLen({Len(x), Len(t), Len(p.out), Len(z)}) = 0
                       THEN /\ pc' = Return(FALSE)
                            /\ last' = [NoOutcome EXCEPT !.op = "sample", !.status = "error",
                                                         !.err = "RuntimeError"]
                            /\ UNCHANGED << x, i, steps >>
                       ELSE /\ x' = Update(self, x, t, p.out, z)
                            /\ i' = i - 1
                            /\ steps' = Append(steps, [i |-> i, fresh |-> FreshNoise(i),
                                                        noise |-> z, x |-> x'])
                            /\ UNCHANGED << pc, last >>
  /\ diffusion' = << AfterStep(self, [j \in 1..n |-> i]) >>
  /\ UNCHANGED << who, config, training, epoch, batch, n, x0, training0 >>

\* lines 123-126: model.train(), the conversion to images, the return
sample_end ==
  /\ pc = "sampling"
  /\ i < RangeLast
  /\ pc' = Return(TRUE)
  /\ training' = model_train(training)
  /\ \E im \in ToImages(x) :
       last' = [NoOutcome EXCEPT !.op = "sample", !.status = "ok", !.out = im]
  /\ UNCHANGED << who, config, diffusion, epoch, batch, n,
                  i, x, x0, training0, calls, steps, draws >>

\* -------------------------------------------------------- launch and train
\* launch: parse_args(config) copies the command line into config
parse_args(noise_steps, epochs) ==
  /\ pc = "start"
  /\ pc' = "train"
  /\ who' = "train"
  /\ config' = [config EXCEPT !.noise_steps = noise_steps, !.epochs = epochs]
  /\ UNCHANGED << diffusion, training, epoch, batch, n, i,
                  x, x0, training0, calls, steps, draws, last >>

\* train, lines 130-140: the model, the optimizer, the Diffusion instance
train ==
  /\ pc = "train"
  /\ training' = TRUE
  /\ diffusion' = << Diffusion(DefaultNoiseSteps, DefaultBetaStart, DefaultBetaEnd,
                               config.img_size, config.device) >>
  /\ epoch' = 0
  /\ batch' = 0
  /\ pc' = IF config.epochs > 0 THEN "batches" ELSE "done"
  /\ UNCHANGED << who, config, n, i, x, x0, training0, calls, steps, draws, last >>

\* train, lines 145-157: one batch
train_step ==
  /\ pc = "batches"
  /\ batch < Len(train_dataloader)
  /\ LET images == train_dataloader[batch + 1]
     IN IF sample_timesteps(self, Len(images)) = {}
        THEN /\ pc' = "failed"
             /\ last' = [NoOutcome EXCEPT !.op = "sample_timesteps", !.status = "error",
                                          !.err = "RuntimeError", !.arg = << Len(images) >>]
             /\ calls' = << >>
             /\ draws' = 0
             /\ batch' = batch
        ELSE \E t \in sample_timesteps(self, Len(images)) :
             \E eps \in Randn(who, Len(images)) :
               LET r == noise_images(self, images, t, eps)
               IN /\ last' = [op |-> "noise_images", status |-> r.status, err |-> r.err,
                              arg |-> t, out |-> r.out, aux |-> r.aux]
                  /\ draws' = IF r.err = "IndexError" THEN 0 ELSE 1
                  /\ IF r.status = "error"
                     THEN /\ pc' = "failed"
                          /\ calls' = << >>
                          /\ batch' = batch
                     ELSE \E p \in Predictor(who, r.out) :
                            /\ calls' = << [by |-> "train", t |-> t, x |-> r.out,
                                            training |-> training, raised |-> p.raised,
                                            shape |-> Len(p.out)] >>
                            /\ pc' = IF p.raised THEN "failed" ELSE "batches"
                            /\ batch' = IF p.raised THEN batch ELSE batch + 1
  /\ steps' = << >>
  /\ UNCHANGED << who, config, diffusion, training, epoch, n, i, x, x0, training0 >>

\* train, lines 160-161 and the next epoch: save_images, torch.save
train_save ==
  /\ pc = "saving"
  /\ epoch' = epoch + 1
  /\ batch' = 0
  /\ pc' = IF epoch + 1 < config.epochs THEN "batches" ELSE "done"
  /\ UNCHANGED << who, config, diffusion, training, n, i,
                  x, x0, training0, calls, steps, draws, last >>

Next ==
  \/ \E T \in (-1)..MaxT : \E b \in BetaPairs : Diffusion_init(T, b[1], b[2])
  \/ pc = "idle" /\ \E k \in 1..MaxN : \E xin \in Images(k) :
       \E t \in TimestepBatches(k, self.noise_steps) :
       \E eps \in Randn(who, k) : noise_images_call(xin, t, eps)
  \/ caller_continues
  \/ \E k \in 1..MaxN : sample_timesteps_call(k)
  \/ \E k \in 1..MaxN : sample_begin(k)
  \/ sample_step
  \/ sample_end
  \/ \E T \in ArgNoiseSteps : \E e \in ArgEpochs : parse_args(T, e)
  \/ train
  \/ train_step
  \/ train_save

Spec == Init /\ [][Next]_vars

\* ------------------------------------------------------------ properties
Exists == diffusion # << >>

InSample == Exists /\ (pc = "sampling" \/ last.op = "sample")

SampleReturned == Exists /\ last.op = "sample" /\ last.status = "ok"

InRange(t, lo, hi) == \A j \in 1..Len(t) : lo <= t[j] /\ t[j] <= hi

\* C1: in a call of sample the k-th predictor invocation gets the timestep
\* batch of n entries noise_steps - k (so noise_steps - 1, noise_steps - 2, ...,
\* never below 1) and the x the previous step produced (the initial x for the
\* first); a call that returns with noise_steps >= 1 has made noise_steps - 1
\* invocations.
C1_PredictorCalls ==
  InSample =>
    /\ \A k \in 1..Len(calls) :
         /\ calls[k].by = "sample"
         /\ calls[k].t = [j \in 1..n |-> self.noise_steps - k]
         /\ self.noise_steps - k >= 1
         /\ calls[k].x = IF k = 1 THEN x0 ELSE steps[k - 1].x
    /\ (SampleReturned /\ self.noise_steps >= 1) => Len(calls) = self.noise_steps - 1

C1_Witness ==
  /\ SampleReturned
  /\ who = "caller"
  /\ self.noise_steps = MaxT
  /\ n = MaxN
  /\ Len(calls) = MaxT - 1

\* C2: whenever sample returns, the returned batch has n elements and every
\* value of it is an integer in 0..255.
C2_AsClaimed ==
  SampleReturned =>
    /\ Len(last.out) = n
    /\ \A j \in 1..Len(last.out) : last.out[j] \in 0..255

\* C3: with noise_steps >= 2, sample_timesteps(k) returns k integers, each in
\* 1..noise_steps-1, all 1 when noise_steps = 2; and every timestep batch train
\* passes to noise_images and to the predictor lies in 1..noise_steps-1.
C3_Timesteps ==
  /\ (Exists /\ last.op = "sample_timesteps" /\ self.noise_steps >= 2) =>
       /\ last.status = "ok"
       /\ Len(last.out) = last.arg[1]
       /\ InRange(last.out, 1, self.noise_steps - 1)
       /\ self.noise_steps = 2 => \A j \in 1..Len(last.out) : last.out[j] = 1
  /\ (who = "train" /\ last.op = "noise_images") =>
       /\ Len(last.arg) = Len(train_dataloader[1])
       /\ InRange(last.arg, 1, self.noise_steps - 1)
  /\ \A k \in 1..Len(calls) :
       calls[k].by = "train" => InRange(calls[k].t, 1, self.noise_steps - 1)

C3_Witness ==
  /\ Exists
  /\ last.op = "sample_timesteps"
  /\ last.status = "ok"
  /\ self.noise_steps = 2
  /\ last.out = [j \in 1..MaxN |-> 1]

\* C4: once the instance exists, no step of noise_images, sample_timesteps,
\* sample or train changes any of its fields.
C4_FieldsUnchanged == [][Exists => diffusion' = diffusion]_vars

C4_Witness ==
  /\ SampleReturned
  /\ who = "caller"
  /\ training0 = FALSE
  /\ Len(steps) = MaxT - 1
  /\ diffusion = << Diffusion(MaxT, DefaultBetaStart, DefaultBetaEnd, DefaultImgSize, "cuda") >>

\* C5: no instance exists with noise_steps < 1, beta_start <= 0, beta_end <= 0
\* or beta_start >= beta_end.
C5_AsClaimed ==
  Exists =>
    /\ self.noise_steps >= 1
    /\ self.beta_start > 0
    /\ self.beta_end > 0
    /\ self.beta_start < self.beta_end

\* C6: noise_images with an entry of t outside 0..noise_steps-1 ends in an
\* index error and returns no pair.
C6_AsClaimed ==
  (Exists /\ last.op = "noise_images" /\ ~InRange(last.arg, 0, self.noise_steps - 1)) =>
    /\ last.status = "error"
    /\ last.err = "IndexError"
    /\ last.out = << >>

\* C7: a predictor invocation of sample that raises, or returns a tensor whose
\* shape is not that of x, is the last one, x is not updated from it, and the
\* call ends in an error.
C7_AsClaimed ==
  InSample =>
    \A k \in 1..Len(calls) :
      (calls[k].raised \/ calls[k].shape # Len(calls[k].x)) =>
        /\ k = Len(calls)
        /\ Len(steps) = k - 1
        /\ pc \in {"returned", "failed"}
        /\ last.status = "error"

\* C8: beta, alpha and alpha_hat have length noise_steps, and the instance train
\* builds has schedule length config.noise_steps.
C8_AsClaimed ==
  Exists =>
    /\ Len(self.beta) = self.noise_steps
    /\ Len(self.alpha) = self.noise_steps
    /\ Len(self.alpha_hat) = self.noise_steps
    /\ who = "train" => Len(self.beta) = config.noise_steps

\* C9: a step of sample draws fresh noise iff its timestep is above 1, and the
\* step for timestep 1 uses all-zero noise; the draws of a call are the initial
\* x and one per step with fresh noise, so a call that returns with
\* noise_steps >= 2 has made 1 + (noise_steps - 2) draws, and its last step is
\* the one for timestep 1.
C9_Noise ==
  InSample =>
    /\ \A k \in 1..Len(steps) :
         /\ steps[k].fresh <=> steps[k].i > 1
         /\ steps[k].i = 1 => \A j \in 1..Len(steps[k].noise) : steps[k].noise[j] = Zero
    /\ (pc = "sampling" \/ SampleReturned) =>
         draws = 1 + Cardinality({ k \in 1..Len(steps) : steps[k].fresh })
    /\ (SampleReturned /\ self.noise_steps >= 2) =>
         /\ draws = 1 + (self.noise_steps - 2)
         /\ steps[Len(steps)].i = 1

C9_Witness ==
  /\ SampleReturned
  /\ who = "caller"
  /\ self.noise_steps = MaxT
  /\ draws = MaxT - 1
  /\ steps[Len(steps)].i = 1
  /\ ~steps[Len(steps)].fresh

\* C10 as claimed: the model is in inference mode at every predictor invocation
\* of sample, and in training mode after sample has ended, by a return or by
\* the predictor raising.
C10_AsClaimed ==
  /\ \A k \in 1..Len(calls) : calls[k].by = "sample" => ~calls[k].training
  /\ (Exists /\ last.op = "sample" /\ (last.status = "ok" \/ last.err = "PredictorRaised")) =>
       training

\* C10 as amended: the model is in inference mode at every predictor invocation
\* of sample; after sample has returned it is in training mode, whatever its
\* mode before the call; after sample has ended in an error it is in inference
\* mode.
C10_Modes ==
  /\ \A k \in 1..Len(calls) : calls[k].by = "sample" => ~calls[k].training
  /\ SampleReturned => training
  /\ (Exists /\ last.op = "sample" /\ last.status = "error") => ~training

C10_Witness ==
  /\ SampleReturned
  /\ training0 = FALSE
  /\ training
  /\ Len(calls) >= 1
====
